---- MODULE Spec2Model ----
(***************************************************************************)
(* Model of the voice-translator backend (src/notmain.py, with src/main.py *)
(* holding the same handlers except /get-realtime-token).                  *)
(*                                                                         *)
(* Text values.  A Python str that the code inspects (content type, file   *)
(* name, path) is a sequence of one-character strings, so that startswith, *)
(* splitext, lower and glob are computed and not assumed.  A message is a  *)
(* sequence of tokens, one token per literal piece or interpolated value   *)
(* of the f-string that builds it.  None is the value NoneVal.             *)
(*                                                                         *)
(* Scheduling.  Every handler is an `async def` run by one event loop; the *)
(* calls through `requests` and `time.sleep` block that loop, so a handler *)
(* gives the loop away only at an `await`.  `running` is the request that  *)
(* holds the loop (0 when it is free).  The only await of the handlers is  *)
(* `await audio.read()` of /transcribe.                                    *)
(*                                                                         *)
(* Library behaviour is that of the Starlette/FastAPI releases current     *)
(* for this code: str(HTTPException) is "<status>: <detail>", and the      *)
(* content type of an upload part without a Content-Type header is None.   *)
(***************************************************************************)
EXTENDS Integers, Sequences, FiniteSets, TLC

\* ------------------------------------------------------------------ bounds

\* Number of requests the model admits between startup and shutdown.
MaxReqs == 2

Reqs == 1..MaxReqs

\* ------------------------------------------------------- program constants

\* src/notmain.py:80  for _ in range(30)
POLL_ATTEMPTS == 30

\* src/notmain.py:95  time.sleep(3)
POLL_INTERVAL == 3

\* ------------------------------------------------------------- text values

NoneVal == <<"<None>">>

\* str.startswith
StartsWith(s, p) == Len(s) >= Len(p) /\ SubSeq(s, 1, Len(p)) = p

\* str.endswith
EndsWith(s, p) == Len(s) >= Len(p) /\ SubSeq(s, Len(s) - Len(p) + 1, Len(s)) = p

\* Index of the last occurrence of character c in s, 0 when there is none (str.rfind + 1).
RFind(s, c) ==
    IF \E i \in 1..Len(s) : s[i] = c
    THEN CHOOSE i \in 1..Len(s) : s[i] = c /\ \A j \in (i+1)..Len(s) : s[j] # c
    ELSE 0

UpperChars == <<"A","B","C","D","E","F","G","H","I","J","K","L","M",
                "N","O","P","Q","R","S","T","U","V","W","X","Y","Z">>
LowerChars == <<"a","b","c","d","e","f","g","h","i","j","k","l","m",
                "n","o","p","q","r","s","t","u","v","w","x","y","z">>

\* str.lower, character by character
LowerChar(c) ==
    IF \E i \in 1..26 : UpperChars[i] = c
    THEN LowerChars[CHOOSE i \in 1..26 : UpperChars[i] = c]
    ELSE c

Lower(s) == [i \in 1..Len(s) |-> LowerChar(s[i])]

\* os.path.splitext(p)[1]: the text from the last dot of the last path component,
\* unless only dots precede it in that component.
SplitExt(p) ==
    LET sep == RFind(p, "/")
        dot == RFind(p, ".")
    IN  IF dot > sep /\ (\E j \in (sep+1)..(dot-1) : p[j] # ".")
        THEN SubSeq(p, dot, Len(p))
        ELSE <<>>

\* Whether token t occurs in message m.
Contains(m, t) == \E i \in 1..Len(m) : m[i] = t

\* Number of occurrences of event e in log l.
Count(l, e) == Cardinality({i \in 1..Len(l) : l[i] = e})

\* -------------------------------------------------------------- literals

AUDIO_PREFIX == <<"a","u","d","i","o","/">>
DOT_MP3 == <<".","m","p","3">>
TEMP_DIR == <<"t","e","m","p","_","a","u","d","i","o","/">>
INPUT_PREFIX == <<"i","n","p","u","t","_">>
OUTPUT_PREFIX == <<"o","u","t","p","u","t","_">>
TMP_PREFIX == <<"t","m","p">>

\* Content types a client can declare for the uploaded part.
ContentTypes ==
    { AUDIO_PREFIX \o <<"w","a","v">>,
      <<"a","u","d","i","o">>,
      <<"t","e","x","t","/","p","l","a","i","n">>,
      <<>>,
      NoneVal }

\* File names a client can declare for the uploaded part.
FileNames ==
    { <<"a",".","W","A","V">>,
      <<"c","l","i","p">> }

Digits == <<"1","2","3","4","5","6","7","8","9">>

\* ------------------------------------------------------------------ state

VARIABLES
    phase,      \* "boot", "serving", "failed" (startup hook raised) or "stopped"
    creds,      \* the four module-level credential values
    fs,         \* the scratch directory temp_audio: path -> content
    running,    \* the request holding the event loop, 0 when the loop is free
    req,        \* per request: handler, position, locals, response, log of effects
    nextUuid,   \* how many uuid4 values have been drawn
    sweepErrors \* the paths whose removal raised in the shutdown hook

vars == <<phase, creds, fs, running, req, nextUuid, sweepErrors>>

CredNames == {"ASSEMBLYAI_API_KEY", "GOOGLE_API_KEY", "AZURE_API_KEY", "AZURE_REGION"}

\* os.getenv gives None for an unset variable and may give the empty string.
CredValues == {NoneVal, <<>>, <<"k">>}

\* Variant: a test against None only (`is not None`), which an empty string passes.
Truthy_not_none(v) == v # NoneVal

\* Python truthiness of a str-or-None value.
Truthy(v) == v # NoneVal /\ v # <<>>

\* An HTTP response: status, the detail of an error, the fields of a success body.
\* `body` is a set of <<field, value>> pairs, `file` the path a FileResponse serves.
NoResp == [status |-> 0, detail |-> <<>>, body |-> {}, file |-> NoneVal]

\* ------------------------------------------------------------- file system

Exists(dir, p) == p \in DOMAIN dir

\* open(p, "wb") / write: create or replace the content of p
WriteFile(dir, p, data) ==
    [q \in DOMAIN dir \cup {p} |-> IF q = p THEN data ELSE dir[q]]

\* os.remove
RemoveFile(dir, p) == [q \in DOMAIN dir \ {p} |-> dir[q]]

RemoveFiles(dir, ps) == [q \in DOMAIN dir \ ps |-> dir[q]]

\* --------------------------------------------------------------- responses

StatusText(code) ==
    CASE code = 200 -> "200"
      [] code = 204 -> "204"
      [] code = 400 -> "400"
      [] code = 401 -> "401"
      [] code = 403 -> "403"
      [] code = 404 -> "404"
      [] code = 500 -> "500"
      [] code = 503 -> "503"

HttpError(code, detail) == [status |-> code, detail |-> detail, body |-> {}, file |-> NoneVal]

HttpOk(body) == [status |-> 200, detail |-> <<>>, body |-> body, file |-> NoneVal]

\* An exception that leaves a handler uncaught: the server answers 500 with a fixed text.
Unhandled == HttpError(500, <<"Internal Server Error">>)

\* Exceptions: type, the status of an HTTPException, the message tokens.
Exc(type, msg) == [type |-> type, status |-> 0, msg |-> msg]

HTTPException(code, detail) == [type |-> "HTTPException", status |-> code, msg |-> detail]

\* Variant: str(e) of an exception built with keyword arguments only is empty
\* (HTTPException without its own __str__).
Str_args_only(e) ==
    IF e.type = "HTTPException" THEN <<>> ELSE e.msg

\* str(e)
Str(e) ==
    IF e.type = "HTTPException"
    THEN <<StatusText(e.status), ": ">> \o e.msg
    ELSE e.msg

\* requests.Response.raise_for_status raises for 4xx and 5xx only.
RaisesForStatus(code) == code >= 400 /\ code < 600

HTTPError(code, url) ==
    Exc("HTTPError",
        <<StatusText(code), IF code < 500 THEN " Client Error" ELSE " Server Error",
          " for url: ", url>>)

ConnectionError(url) == Exc("ConnectionError", <<"Connection failed: ", url>>)

KeyError(key) == Exc("KeyError", <<"'", key, "'">>)

JSONDecodeError == Exc("JSONDecodeError", <<"Expecting value: line 1 column 1 (char 0)">>)

\* ------------------------------------------------------- provider replies

\* A JSON object is a set of <<key, value>> pairs; JSON null is the value JsonNull.
JsonNull == "<null>"

Json(pairs) == [json |-> TRUE, obj |-> pairs]

NotJson == [json |-> FALSE, obj |-> {}]

HasKey(body, k) == \E kv \in body.obj : kv[1] = k

\* body[k]
Get(body, k) == (CHOOSE kv \in body.obj : kv[1] = k)[2]

\* body.get(k, default)
GetOr(body, k, default) == IF HasKey(body, k) THEN Get(body, k) ELSE default

\* What a provider call can come back with: a transport failure, or a status code
\* with a body (JSON object or not JSON) and its raw text.
Reply(code, body, text) == [transport |-> TRUE, code |-> code, body |-> body, text |-> text]

NoReply == [transport |-> FALSE, code |-> 0, body |-> NotJson, text |-> ""]

\* A request slot before its request arrives: no handler, no locals, no effects.
IdleReq ==
    [kind |-> "none", pc |-> "idle", ctype |-> NoneVal, filename |-> NoneVal,
     path |-> NoneVal, i |-> 0, slept |-> 0, text |-> "", language |-> NoneVal,
     sent |-> {}, response |-> NoReply, transcribe_response |-> NoReply,
     result |-> NoReply, test_response |-> NoReply, resp |-> NoResp, log |-> <<>>]

ClosedReq == [IdleReq EXCEPT !.pc = "closed"]

\* Files left in temp_audio by an earlier run (earlier revisions of /tts wrote
\* temp_audio/output_<uuid>.mp3).
StalePath == TEMP_DIR \o OUTPUT_PREFIX \o <<"0">> \o DOT_MP3

InitialDirs == { <<>>, [p \in {StalePath} |-> "old-audio"] }

Init ==
    /\ phase = "boot"
    /\ creds \in [CredNames -> CredValues]
    /\ fs \in InitialDirs
    /\ running = 0
    /\ req = [r \in Reqs |-> IdleReq]
    /\ nextUuid = 0
    /\ sweepErrors = {}

NoExc == Exc("none", <<>>)

Raise(e) == [ok |-> FALSE, val |-> "", exc |-> e]

Return(v) == [ok |-> TRUE, val |-> v, exc |-> NoExc]

\* requests.<verb>(url) ; response.raise_for_status() ; response.json()
Checked(reply, url) ==
    IF ~reply.transport THEN Raise(ConnectionError(url))
    ELSE IF RaisesForStatus(reply.code) THEN Raise(HTTPError(reply.code, url))
    ELSE IF ~reply.body.json THEN Raise(JSONDecodeError)
    ELSE Return("")

\* Variant: response.json().get(key) in place of response.json()[key].
Field_lenient(reply, url, key) ==
    IF ~Checked(reply, url).ok THEN Checked(reply, url)
    ELSE Return(GetOr(reply.body, key, "None"))

\* ... followed by response.json()[key]
Field(reply, url, key) ==
    IF ~Checked(reply, url).ok THEN Checked(reply, url)
    ELSE IF ~HasKey(reply.body, key) THEN Raise(KeyError(key))
    ELSE Return(Get(reply.body, key))

UPLOAD_URL == "https://api.assemblyai.com/v2/upload"
TRANSCRIPT_URL == "https://api.assemblyai.com/v2/transcript"

UploadReplies ==
    { Reply(200, Json({<<"upload_url", "https://cdn.assemblyai.com/upload/1">>}), "{...}"),
      Reply(200, Json({}), "{}"),
      Reply(200, NotJson, ""),
      Reply(401, NotJson, "unauthorized"),
      Reply(500, NotJson, "oops"),
      NoReply }

SubmitReplies ==
    { Reply(200, Json({<<"id", "job-1">>}), "{...}"),
      Reply(200, Json({<<"status", "queued">>}), "{...}"),
      Reply(500, NotJson, "oops"),
      NoReply }

PollReplies ==
    { Reply(200, Json({<<"status", "queued">>}), "{...}"),
      Reply(200, Json({<<"status", "processing">>}), "{...}"),
      Reply(200, Json({<<"status", "completed">>, <<"text", "hola">>, <<"language_code", "es">>}), "{...}"),
      Reply(200, Json({<<"status", "completed">>, <<"text", "hello">>}), "{...}"),
      Reply(200, Json({<<"status", "completed">>, <<"text", "salam">>, <<"language_code", JsonNull>>}), "{...}"),
      Reply(200, Json({<<"status", "completed">>}), "{...}"),
      Reply(200, Json({<<"status", "error">>, <<"error", "Audio is corrupt">>}), "{...}"),
      Reply(200, Json({<<"status", "error">>}), "{...}"),
      Reply(200, Json({<<"id", "job-1">>}), "{...}"),
      Reply(200, NotJson, "<html>"),
      Reply(503, NotJson, "busy"),
      NoReply }

\* ---------------------------------------------------------------- uuid4

\* Variant: an identifier that does not change from one request to the next.
Uuid_constant(n) == <<Digits[1]>>

\* uuid.uuid4(): a value not drawn before (the n-th draw is the text of n).
Uuid(n) == <<Digits[n]>>

\* --------------------------------------------------- handlers: shared steps

Upd(r, rec) == req' = [req EXCEPT ![r] = rec]

Log(rec, e) == [rec EXCEPT !.log = Append(@, e)]

\* A request may enter a handler when the process serves, the loop is free and the
\* request slot is the first unused one.
CanEnter(r) ==
    /\ phase = "serving"
    /\ running = 0
    /\ req[r].pc = "idle"
    /\ \A q \in Reqs : q < r => req[q].pc # "idle"

\* The handler's response has been produced; the server sends it and the loop is free.
respond(r) ==
    /\ running = r
    /\ req[r].pc = "done"
    /\ Upd(r, [ClosedReq EXCEPT !.path = req[r].path])
    /\ running' = 0
    /\ UNCHANGED <<phase, creds, fs, nextUuid, sweepErrors>>

\* -------------------------------------------------------------- /transcribe

\* except Exception as e: raise HTTPException(status_code=500, detail=str(e))
transcribe_except(rec, e) ==
    [rec EXCEPT !.resp = HttpError(500, Str(e)), !.pc = "finally"]

\* return {...} inside the try block: the finally clause runs before the handler exits
transcribe_return(rec, body) ==
    [rec EXCEPT !.resp = HttpOk(body), !.pc = "finally"]

\* Variant: one attempt too many (range(31)).
transcribe_loop_inclusive(rec) ==
    IF rec.i <= POLL_ATTEMPTS
    THEN [rec EXCEPT !.pc = "poll"]
    ELSE transcribe_except(rec, HTTPException(500, <<"Transcription timeout">>))

\* Head of `for _ in range(30)`: the next iteration, or the statement after the loop.
transcribe_loop(rec) ==
    IF rec.i < POLL_ATTEMPTS
    THEN [rec EXCEPT !.pc = "poll"]
    ELSE transcribe_except(rec, HTTPException(500, <<"Transcription timeout">>))

\* Lines 51-55: the content-type check and the choice of the scratch path.
transcribe_audio_enter(r) ==
    /\ CanEnter(r)
    /\ \E ct \in ContentTypes, fn \in FileNames :
        LET rec == [IdleReq EXCEPT !.kind = "transcribe", !.ctype = ct, !.filename = fn]
        IN  IF ct = NoneVal
            THEN \* None has no startswith: AttributeError outside the try block
                 /\ Upd(r, [rec EXCEPT !.pc = "done", !.resp = Unhandled])
                 /\ UNCHANGED nextUuid
            ELSE IF ~StartsWith(ct, AUDIO_PREFIX)
            THEN /\ Upd(r, [rec EXCEPT !.pc = "done",
                                       !.resp = HttpError(400, <<"Invalid audio file">>)])
                 /\ UNCHANGED nextUuid
            ELSE LET ext == IF Lower(SplitExt(fn)) # <<>> THEN Lower(SplitExt(fn)) ELSE DOT_MP3
                 IN  /\ Upd(r, [rec EXCEPT !.pc = "open",
                                   !.path = TEMP_DIR \o INPUT_PREFIX \o Uuid(nextUuid + 1) \o ext])
                     /\ nextUuid' = nextUuid + 1
    /\ running' = r
    /\ UNCHANGED <<phase, creds, fs, sweepErrors>>

\* Line 58: open(input_path, "wb") creates the file; the handler then awaits the
\* upload's bytes and the loop is free.  The open itself can fail (OSError).
transcribe_audio_open(r) ==
    /\ running = r
    /\ req[r].pc = "open"
    /\ \/ /\ fs' = WriteFile(fs, req[r].path, "")
          /\ Upd(r, Log([req[r] EXCEPT !.pc = "read"], "create"))
          /\ running' = 0
       \/ /\ Upd(r, transcribe_except(req[r], Exc("OSError", <<"[Errno 28] No space left on device">>)))
          /\ UNCHANGED <<fs, running>>
    /\ UNCHANGED <<phase, creds, nextUuid, sweepErrors>>

\* Line 59: f.write(await audio.read()), resumed when the loop is free.
transcribe_audio_save(r) ==
    /\ running = 0
    /\ req[r].pc = "read"
    /\ fs' = WriteFile(fs, req[r].path, "audio-bytes")
    /\ Upd(r, Log([req[r] EXCEPT !.pc = "upload"], "write"))
    /\ running' = r
    /\ UNCHANGED <<phase, creds, nextUuid, sweepErrors>>

\* Lines 60-70: upload the scratch file, take upload_url from the answer.
transcribe_audio_upload(r) ==
    /\ running = r
    /\ req[r].pc = "upload"
    /\ \E reply \in UploadReplies :
        LET rec == Log([req[r] EXCEPT !.response = reply], "upload")
            got == Field(reply, UPLOAD_URL, "upload_url")
        IN  Upd(r, IF ~Exists(fs, req[r].path)
                   THEN transcribe_except(req[r], Exc("FileNotFoundError", <<"No such file">>))
                   ELSE IF got.ok THEN [rec EXCEPT !.pc = "submit"]
                   ELSE transcribe_except(rec, got.exc))
    /\ UNCHANGED <<phase, creds, fs, running, nextUuid, sweepErrors>>

\* Variant: a failed submission sends the file once more before giving up.
transcribe_audio_submit_reupload(r) ==
    /\ running = r
    /\ req[r].pc = "submit"
    /\ \E reply \in SubmitReplies :
        LET rec == Log([req[r] EXCEPT !.transcribe_response = reply], "submit")
            got == Field(reply, TRANSCRIPT_URL, "id")
        IN  Upd(r, IF got.ok THEN transcribe_loop([rec EXCEPT !.i = 0])
                   ELSE IF Count(rec.log, "upload") < 2 THEN [rec EXCEPT !.pc = "upload"]
                   ELSE transcribe_except(rec, got.exc))
    /\ UNCHANGED <<phase, creds, fs, running, nextUuid, sweepErrors>>

\* Lines 71-78: submit the job, take its id.
transcribe_audio_submit(r) ==
    /\ running = r
    /\ req[r].pc = "submit"
    /\ \E reply \in SubmitReplies :
        LET rec == Log([req[r] EXCEPT !.transcribe_response = reply], "submit")
            got == Field(reply, TRANSCRIPT_URL, "id")
        IN  Upd(r, IF got.ok THEN transcribe_loop([rec EXCEPT !.i = 0])
                   ELSE transcribe_except(rec, got.exc))
    /\ UNCHANGED <<phase, creds, fs, running, nextUuid, sweepErrors>>

\* Variant: the language is read under the wrong key.
transcribe_poll_step_wrong_key(rec, reply) ==
    LET got == Field(reply, TRANSCRIPT_URL, "status")
    IN  IF ~got.ok THEN transcribe_except(rec, got.exc)
        ELSE IF got.val = "completed"
        THEN IF ~HasKey(reply.body, "text")
             THEN transcribe_except(rec, KeyError("text"))
             ELSE transcribe_return(rec,
                    { <<"text", <<Get(reply.body, "text")>>>>,
                      <<"language_detected", <<GetOr(reply.body, "language", "unknown")>>>> })
        ELSE IF got.val = "error"
        THEN IF ~HasKey(reply.body, "error")
             THEN transcribe_except(rec, KeyError("error"))
             ELSE transcribe_except(rec,
                    HTTPException(500, <<"AssemblyAI error: ", Get(reply.body, "error")>>))
        ELSE [rec EXCEPT !.pc = "sleep"]

\* Variant: a status call that fails is taken for "not ready yet" and tried again.
transcribe_poll_step_tolerant(rec, reply) ==
    LET got == Field(reply, TRANSCRIPT_URL, "status")
    IN  IF ~got.ok THEN [rec EXCEPT !.pc = "sleep"]
        ELSE IF got.val = "completed"
        THEN IF ~HasKey(reply.body, "text")
             THEN transcribe_except(rec, KeyError("text"))
             ELSE transcribe_return(rec,
                    { <<"text", <<Get(reply.body, "text")>>>>,
                      <<"language_detected", <<GetOr(reply.body, "language_code", "unknown")>>>> })
        ELSE IF got.val = "error"
        THEN IF ~HasKey(reply.body, "error")
             THEN transcribe_except(rec, KeyError("error"))
             ELSE transcribe_except(rec,
                    HTTPException(500, <<"AssemblyAI error: ", Get(reply.body, "error")>>))
        ELSE [rec EXCEPT !.pc = "sleep"]

\* Lines 81-94: one status call and the decision on its answer.
transcribe_poll_step(rec, reply) ==
    LET got == Field(reply, TRANSCRIPT_URL, "status")
    IN  IF ~got.ok THEN transcribe_except(rec, got.exc)
        ELSE IF got.val = "completed"
        THEN IF ~HasKey(reply.body, "text")
             THEN transcribe_except(rec, KeyError("text"))
             ELSE transcribe_return(rec,
                    { <<"text", <<Get(reply.body, "text")>>>>,
                      <<"language_detected", <<GetOr(reply.body, "language_code", "unknown")>>>> })
        ELSE IF got.val = "error"
        THEN IF ~HasKey(reply.body, "error")
             THEN transcribe_except(rec, KeyError("error"))
             ELSE transcribe_except(rec,
                    HTTPException(500, <<"AssemblyAI error: ", Get(reply.body, "error")>>))
        ELSE [rec EXCEPT !.pc = "sleep"]

transcribe_audio_poll(r) ==
    /\ running = r
    /\ req[r].pc = "poll"
    /\ \E reply \in PollReplies :
        Upd(r, transcribe_poll_step(Log([req[r] EXCEPT !.result = reply], "status"), reply))
    /\ UNCHANGED <<phase, creds, fs, running, nextUuid, sweepErrors>>

\* Line 95 and the loop head: time.sleep(3), then the next value of range(30).
transcribe_audio_sleep(r) ==
    /\ running = r
    /\ req[r].pc = "sleep"
    /\ Upd(r, transcribe_loop(Log([req[r] EXCEPT !.slept = @ + POLL_INTERVAL, !.i = @ + 1], "sleep")))
    /\ UNCHANGED <<phase, creds, fs, running, nextUuid, sweepErrors>>

\* Variant: the removal sits at the end of the try block, so only a return reaches it.
transcribe_audio_finally_on_success(r) ==
    /\ running = r
    /\ req[r].pc = "finally"
    /\ IF Exists(fs, req[r].path) /\ req[r].resp.status = 200
       THEN /\ fs' = RemoveFile(fs, req[r].path)
            /\ Upd(r, Log([req[r] EXCEPT !.pc = "done"], "remove"))
       ELSE /\ fs' = fs
            /\ Upd(r, [req[r] EXCEPT !.pc = "done"])
    /\ UNCHANGED <<phase, creds, running, nextUuid, sweepErrors>>

\* Lines 100-103: the finally clause.
transcribe_audio_finally(r) ==
    /\ running = r
    /\ req[r].pc = "finally"
    /\ IF Exists(fs, req[r].path)
       THEN /\ fs' = RemoveFile(fs, req[r].path)
            /\ Upd(r, Log([req[r] EXCEPT !.pc = "done"], "remove"))
       ELSE /\ fs' = fs
            /\ Upd(r, [req[r] EXCEPT !.pc = "done"])
    /\ UNCHANGED <<phase, creds, running, nextUuid, sweepErrors>>

\* --------------------------------------------------------------- /translate

TRANSLATE_URL == "https://translation.googleapis.com/language/translate/v2"

\* The body path ["data"]["translations"][0]["translatedText"] is one key here.
TRANSLATED == "data.translations.0.translatedText"

\* A deterministic provider: the translation is a function of the request.
Translation(text, source, target) ==
    IF source = target THEN text
    ELSE IF target = "es" THEN "hola"
    ELSE "hello"

TranslateTexts == {"hello", "hola"}

TranslateLangs == {"en", "es"}

\* Failure modes of the single provider call: none, transport, HTTP 4xx/5xx, no JSON,
\* JSON without the translation.
TranslateFaults == {"none", "transport", "400", "503", "notjson", "nokey"}

TranslateReply(text, source, target, fault) ==
    CASE fault = "none" ->
            Reply(200, Json({<<TRANSLATED, Translation(text, source, target)>>}), "{...}")
      [] fault = "transport" -> NoReply
      [] fault = "400" -> Reply(400, Json({<<"error", "Invalid Value">>}), "{...}")
      [] fault = "503" -> Reply(503, NotJson, "busy")
      [] fault = "notjson" -> Reply(200, NotJson, "<html>")
      [] fault = "nokey" -> Reply(200, Json({<<"data", "{}">>}), "{...}")

\* Lines 105-107: the form fields of the request.
translate_text_enter(r) ==
    /\ CanEnter(r)
    /\ \E text \in TranslateTexts, source \in TranslateLangs, target \in TranslateLangs :
        Upd(r, [IdleReq EXCEPT !.kind = "translate", !.pc = "translate", !.text = text,
                               !.sent = {<<"q", text>>, <<"source", source>>, <<"target", target>>}])
    /\ running' = r
    /\ UNCHANGED <<phase, creds, fs, nextUuid, sweepErrors>>

\* Variant: a failed call is tried a second time before the handler gives up.
translate_text_retry(r) ==
    /\ running = r
    /\ req[r].pc = "translate"
    /\ \E fault \in TranslateFaults :
        LET reply == TranslateReply(GetOr(Json(req[r].sent), "q", ""),
                                    GetOr(Json(req[r].sent), "source", ""),
                                    GetOr(Json(req[r].sent), "target", ""), fault)
            rec == Log([req[r] EXCEPT !.response = reply], "translate")
            got == Field(reply, TRANSLATE_URL, TRANSLATED)
        IN  Upd(r, IF got.ok
                   THEN [rec EXCEPT !.pc = "done", !.resp = HttpOk({<<"translated_text", <<got.val>>>>})]
                   ELSE [Log(rec, "translate") EXCEPT !.pc = "done",
                                                      !.resp = HttpError(500, Str(got.exc))])
    /\ UNCHANGED <<phase, creds, fs, running, nextUuid, sweepErrors>>

\* Lines 108-123: one call, its answer or its failure.
translate_text(r) ==
    /\ running = r
    /\ req[r].pc = "translate"
    /\ \E fault \in TranslateFaults :
        LET reply == TranslateReply(GetOr(Json(req[r].sent), "q", ""),
                                    GetOr(Json(req[r].sent), "source", ""),
                                    GetOr(Json(req[r].sent), "target", ""), fault)
            rec == Log([req[r] EXCEPT !.response = reply], "translate")
            got == Field(reply, TRANSLATE_URL, TRANSLATED)
        IN  Upd(r, IF got.ok
                   THEN [rec EXCEPT !.pc = "done", !.resp = HttpOk({<<"translated_text", <<got.val>>>>})]
                   ELSE [rec EXCEPT !.pc = "done", !.resp = HttpError(500, Str(got.exc))])
    /\ UNCHANGED <<phase, creds, fs, running, nextUuid, sweepErrors>>

\* --------------------------------------------------------------------- /tts

\* Lines 35-41
TTS_VOICES ==
    ("en" :> "en-US-JennyNeural") @@ ("es" :> "es-ES-ElviraNeural") @@
    ("fr" :> "fr-FR-DeniseNeural") @@ ("de" :> "de-DE-KatjaNeural") @@
    ("fa" :> "fa-IR-FaridNeural")

\* Variant: the fallback voice is the first entry of the table.
tts_voice_default_en(language) ==
    IF language \in DOMAIN TTS_VOICES THEN TTS_VOICES[language] ELSE "en-US-JennyNeural"

\* Line 132: TTS_VOICES.get(language, "fa-IR-FaridNeural")
tts_voice(language) ==
    IF language \in DOMAIN TTS_VOICES THEN TTS_VOICES[language] ELSE "fa-IR-FaridNeural"

\* Line 133: language if language in TTS_VOICES else "fa-IR"
tts_lang_code(language) ==
    IF language \in DOMAIN TTS_VOICES THEN language ELSE "fa-IR"

\* Lines 139-143: the SSML document, by the values interpolated into it.
tts_ssml(text, language) ==
    { <<"xml:lang", tts_lang_code(language)>>,
      <<"voice", tts_voice(language)>>,
      <<"text", text>> }

\* Language codes a client can send.
TtsLanguages == {"en", "es", "fr", "de", "fa", "xx", "EN", "en-US"}

TTS_URL == "https://<region>.tts.speech.microsoft.com/cognitiveservices/v1"

TtsReplies ==
    { Reply(200, NotJson, "mp3-bytes"),
      Reply(400, NotJson, "Unsupported voice"),
      Reply(401, NotJson, ""),
      NoReply }

\* Names tempfile can draw in temp_audio: tmp<random>.mp3
TmpNames == { TEMP_DIR \o TMP_PREFIX \o <<Digits[n]>> \o DOT_MP3 : n \in 1..MaxReqs }

\* Line 129-130: NamedTemporaryFile(suffix=".mp3", dir="temp_audio", delete=False)
\* creates an empty file under a name that does not exist yet.
text_to_speech_enter(r) ==
    /\ CanEnter(r)
    /\ \E language \in TtsLanguages, p \in TmpNames :
        /\ ~Exists(fs, p)
        /\ fs' = WriteFile(fs, p, "")
        /\ Upd(r, Log([IdleReq EXCEPT !.kind = "tts", !.pc = "synth", !.text = "hello",
                                      !.language = <<language>>, !.path = p], "create"))
    /\ running' = r
    /\ UNCHANGED <<phase, creds, nextUuid, sweepErrors>>

\* Variant: the except clause removes the scratch file of a failed request.
text_to_speech_unlink_on_error(r) ==
    /\ running = r
    /\ req[r].pc = "synth"
    /\ \E reply \in TtsReplies :
        LET rec == Log([req[r] EXCEPT !.sent = tts_ssml(req[r].text, req[r].language[1]),
                                      !.response = reply], "synthesize")
            fail(e) == [rec EXCEPT !.pc = "done", !.resp = HttpError(500, Str(e))]
        IN  IF ~reply.transport
            THEN /\ Upd(r, fail(ConnectionError(TTS_URL)))
                 /\ fs' = RemoveFile(fs, rec.path)
            ELSE IF reply.code # 200
            THEN /\ Upd(r, fail(HTTPException(500, <<"Azure TTS error: ", reply.text>>)))
                 /\ fs' = RemoveFile(fs, rec.path)
            ELSE /\ fs' = WriteFile(fs, rec.path, reply.text)
                 /\ Upd(r, [Log(rec, "write") EXCEPT !.pc = "done",
                        !.resp = [status |-> 200, detail |-> <<>>,
                                  body |-> {<<"media_type", <<"audio/mpeg">>>>},
                                  file |-> rec.path]])
    /\ UNCHANGED <<phase, creds, running, nextUuid, sweepErrors>>

\* Lines 131-165: build the request, call the provider, write the audio.
text_to_speech(r) ==
    /\ running = r
    /\ req[r].pc = "synth"
    /\ \E reply \in TtsReplies :
        LET rec == Log([req[r] EXCEPT !.sent = tts_ssml(req[r].text, req[r].language[1]),
                                      !.response = reply], "synthesize")
            fail(e) == [rec EXCEPT !.pc = "done", !.resp = HttpError(500, Str(e))]
        IN  IF ~reply.transport
            THEN /\ Upd(r, fail(ConnectionError(TTS_URL)))
                 /\ fs' = fs
            ELSE IF reply.code # 200
            THEN /\ Upd(r, fail(HTTPException(500, <<"Azure TTS error: ", reply.text>>)))
                 /\ fs' = fs
            ELSE /\ fs' = WriteFile(fs, rec.path, reply.text)
                 /\ Upd(r, [Log(rec, "write") EXCEPT !.pc = "done",
                        !.resp = [status |-> 200, detail |-> <<>>,
                                  body |-> {<<"media_type", <<"audio/mpeg">>>>},
                                  file |-> rec.path]])
    /\ UNCHANGED <<phase, creds, running, nextUuid, sweepErrors>>

\* ------------------------------------------------------ /get-realtime-token

TOKEN_URL == "https://streaming.assemblyai.com/v3/token"

TOKEN_FAILED == "Failed to create Universal Streaming token: "

NETWORK_ERROR == "Network error connecting to AssemblyAI: "

\* Answers of the credential test call GET /v2/transcript.
ValidateReplies ==
    { Reply(200, Json({<<"transcripts", "[]">>}), "{...}"),
      Reply(401, NotJson, "unauthorized"),
      Reply(403, NotJson, "forbidden"),
      Reply(404, NotJson, "not found"),
      Reply(500, NotJson, "oops"),
      NoReply }

\* Answers of the token call GET /v3/token.
TokenReplies ==
    { Reply(200, Json({<<"token", "tok-1">>}), "{...}"),
      Reply(200, Json({<<"expires_in_seconds", "600">>}), "{no token}"),
      Reply(200, NotJson, "<html>"),
      Reply(401, NotJson, "unauthorized"),
      Reply(403, NotJson, "forbidden"),
      Reply(404, NotJson, "not found"),
      Reply(500, NotJson, "oops"),
      Reply(204, NotJson, ""),
      NoReply }

\* Lines 236-247: the two except clauses of the handler.
token_except(rec, e) ==
    [rec EXCEPT !.pc = "done",
                !.resp = HttpError(500,
                    IF e.type = "ConnectionError"
                    THEN <<NETWORK_ERROR>> \o Str(e)
                    ELSE <<TOKEN_FAILED>> \o Str(e))]

\* Lines 181-186: the handler starts; the key must be set.
get_realtime_token_enter(r) ==
    /\ CanEnter(r)
    /\ LET rec == [IdleReq EXCEPT !.kind = "token"]
       IN  Upd(r, IF ~Truthy(creds["ASSEMBLYAI_API_KEY"])
                  THEN token_except(rec, Exc("Exception", <<"AssemblyAI API key not found">>))
                  ELSE [rec EXCEPT !.pc = "validate"])
    /\ running' = r
    /\ UNCHANGED <<phase, creds, fs, nextUuid, sweepErrors>>

\* Variant: every answer other than 200 fails the credential test.
validate_rejects_non_200(code) == code # 200

\* Lines 196-197: what the handler concludes from the test call's status.
validate_rejects(code) == code = 401

\* Lines 188-197: the credential test call.
get_realtime_token_validate(r) ==
    /\ running = r
    /\ req[r].pc = "validate"
    /\ \E reply \in ValidateReplies :
        LET rec == Log([req[r] EXCEPT !.test_response = reply], "validate")
        IN  Upd(r, IF ~reply.transport THEN token_except(rec, ConnectionError(TRANSCRIPT_URL))
                   ELSE IF validate_rejects(reply.code)
                   THEN token_except(rec, Exc("Exception",
                            <<"Invalid AssemblyAI API key - basic API test failed">>))
                   ELSE [rec EXCEPT !.pc = "token"])
    /\ UNCHANGED <<phase, creds, fs, running, nextUuid, sweepErrors>>

\* Variant: the 403 branch carries the text of the 401 branch.
token_outcome_same_text(reply) ==
    IF reply.code = 401 \/ reply.code = 403
    THEN Raise(Exc("Exception", <<"Invalid AssemblyAI API key for Universal Streaming API">>))
    ELSE IF reply.code = 404
    THEN Raise(Exc("Exception", <<"Universal Streaming API endpoint not found. This feature may not be available in your region or plan.">>))
    ELSE IF reply.code # 200
    THEN Raise(Exc("Exception", <<"AssemblyAI Universal Streaming API returned ",
                                  StatusText(reply.code), ": ", reply.text>>))
    ELSE IF ~reply.body.json
    THEN Raise(Exc("Exception", <<"Invalid JSON response: ", reply.text>>))
    ELSE IF ~HasKey(reply.body, "token")
    THEN Raise(Exc("Exception", <<"No token in response: ", reply.text>>))
    ELSE Return(Get(reply.body, "token"))

\* Lines 214-234: the message of the exception the token answer raises, or the body.
token_outcome(reply) ==
    IF reply.code = 401
    THEN Raise(Exc("Exception", <<"Invalid AssemblyAI API key for Universal Streaming API">>))
    ELSE IF reply.code = 403
    THEN Raise(Exc("Exception", <<"Universal Streaming API access denied. Your AssemblyAI account may not have streaming access. Please check your plan at https://www.assemblyai.com/dashboard/">>))
    ELSE IF reply.code = 404
    THEN Raise(Exc("Exception", <<"Universal Streaming API endpoint not found. This feature may not be available in your region or plan.">>))
    ELSE IF reply.code # 200
    THEN Raise(Exc("Exception", <<"AssemblyAI Universal Streaming API returned ",
                                  StatusText(reply.code), ": ", reply.text>>))
    ELSE IF ~reply.body.json
    THEN Raise(Exc("Exception", <<"Invalid JSON response: ", reply.text>>))
    ELSE IF ~HasKey(reply.body, "token")
    THEN Raise(Exc("Exception", <<"No token in response: ", reply.text>>))
    ELSE Return(Get(reply.body, "token"))

\* Lines 199-234: the token call.
get_realtime_token_request(r) ==
    /\ running = r
    /\ req[r].pc = "token"
    /\ \E reply \in TokenReplies :
        LET rec == Log([req[r] EXCEPT !.sent = {<<"expires_in_seconds", "600">>},
                                      !.response = reply], "token")
            got == token_outcome(reply)
        IN  Upd(r, IF ~reply.transport THEN token_except(rec, ConnectionError(TOKEN_URL))
                   ELSE IF ~got.ok THEN token_except(rec, got.exc)
                   ELSE [rec EXCEPT !.pc = "done",
                            !.resp = HttpOk({ <<"token", <<got.val>>>>,
                                              <<"api_host", <<"streaming.assemblyai.com">>>>,
                                              <<"websocket_url",
                                                <<"wss://streaming.assemblyai.com/v3/streaming?token=", got.val>>>> })])
    /\ UNCHANGED <<phase, creds, fs, running, nextUuid, sweepErrors>>

\* ------------------------------------------------------------- life cycle

\* Lines 254-258: the startup hook.
startup_event ==
    /\ phase = "boot"
    /\ phase' = IF \A c \in CredNames : Truthy(creds[c]) THEN "serving" ELSE "failed"
    /\ UNCHANGED <<creds, fs, running, req, nextUuid, sweepErrors>>

\* glob.glob("temp_audio/output_*.mp3"): the star matches any run of characters
\* other than "/".
GlobMatches(p) ==
    /\ StartsWith(p, TEMP_DIR \o OUTPUT_PREFIX)
    /\ EndsWith(p, DOT_MP3)
    /\ Len(p) >= Len(TEMP_DIR \o OUTPUT_PREFIX) + Len(DOT_MP3)
    /\ \A j \in (Len(TEMP_DIR) + 1)..Len(p) : p[j] # "/"

\* Lines 166-176: the shutdown hook, run once every request in flight has ended.
\* A removal can raise; the hook reports it and goes on.
cleanup_temp_files ==
    /\ phase = "serving"
    /\ running = 0
    /\ \A r \in Reqs : req[r].pc \in {"idle", "closed"}
    /\ \E failing \in SUBSET {p \in DOMAIN fs : GlobMatches(p)} :
        /\ fs' = RemoveFiles(fs, {p \in DOMAIN fs : GlobMatches(p)} \ failing)
        /\ sweepErrors' = failing
    /\ phase' = "stopped"
    /\ UNCHANGED <<creds, running, req, nextUuid>>

Next ==
    \/ startup_event
    \/ cleanup_temp_files
    \/ \E r \in Reqs :
        \/ transcribe_audio_enter(r)
        \/ transcribe_audio_open(r)
        \/ transcribe_audio_save(r)
        \/ transcribe_audio_upload(r)
        \/ transcribe_audio_submit(r)
        \/ transcribe_audio_poll(r)
        \/ transcribe_audio_sleep(r)
        \/ transcribe_audio_finally(r)
        \/ translate_text_enter(r)
        \/ translate_text(r)
        \/ text_to_speech_enter(r)
        \/ text_to_speech(r)
        \/ get_realtime_token_enter(r)
        \/ get_realtime_token_validate(r)
        \/ get_realtime_token_request(r)
        \/ respond(r)

Spec == Init /\ [][Next]_vars

\* A step of the handler that holds the event loop.  Handlers are coroutines whose
\* calls (requests.*, time.sleep, open, os.remove) block and return, so the handler
\* in control keeps executing until it returns or raises, and the server then sends
\* the response.
HandlerStep ==
    \E r \in Reqs :
        /\ running = r
        /\ \/ transcribe_audio_open(r)
           \/ transcribe_audio_upload(r)
           \/ transcribe_audio_submit(r)
           \/ transcribe_audio_poll(r)
           \/ transcribe_audio_sleep(r)
           \/ transcribe_audio_finally(r)
           \/ translate_text(r)
           \/ text_to_speech(r)
           \/ get_realtime_token_validate(r)
           \/ get_realtime_token_request(r)
           \/ respond(r)

\* The service with its scheduling: the handler in control runs on (every external
\* call returns), and a handler suspended at `await audio.read()` (line 59) is
\* resumed by the event loop, which runs ready callbacks in FIFO order, although
\* other requests may hold the loop in between.
FairSpec ==
    /\ Spec
    /\ WF_vars(HandlerStep)
    /\ \A r \in Reqs : SF_vars(transcribe_audio_save(r))

\* ================================================================== claims

\* The provider answered the call with HTTP 200 and a JSON object holding `key`.
Answered(reply, key) ==
    reply.transport /\ reply.code = 200 /\ reply.body.json /\ HasKey(reply.body, key)

\* The status call was answered and reported job status s.
PollSaid(reply, s) == Answered(reply, "status") /\ Get(reply.body, "status") = s

StatusCalls(q) == Count(q.log, "status")

\* The content type names an audio payload.
IsAudioType(ct) == ct # NoneVal /\ StartsWith(ct, AUDIO_PREFIX)

\* ---- C1
\* C1 (as claimed): every /transcribe request whose content type is not an audio
\* type, an absent content type included, ends with HTTP 400, with no external call
\* and no scratch file.
C1_NonAudioIs400 ==
    \A r \in Reqs :
        LET q == req[r]
        IN  (q.kind = "transcribe" /\ ~IsAudioType(q.ctype)) =>
                /\ q.pc = "done"
                /\ q.resp.status = 400
                /\ q.log = <<>>
                /\ q.path = NoneVal

\* ---- C2
\* C2: when the status call reports `completed` on poll k after k-1 non-terminal
\* polls, 1 <= k <= 30, exactly k status calls were made and the handler returns the
\* text of that poll with the provider's language code, or "unknown" when the answer
\* has no language code.
C2_CompletedOnPollK ==
    \A r \in Reqs :
        LET q == req[r]
        IN  (q.kind = "transcribe" /\ q.pc = "done" /\ PollSaid(q.result, "completed")
             /\ HasKey(q.result.body, "text")) =>
                /\ StatusCalls(q) = Count(q.log, "sleep") + 1
                /\ StatusCalls(q) \in 1..30
                /\ q.resp.status = 200
                /\ q.resp.body =
                     { <<"text", <<Get(q.result.body, "text")>>>>,
                       <<"language_detected",
                         <<IF HasKey(q.result.body, "language_code")
                           THEN Get(q.result.body, "language_code")
                           ELSE "unknown">>>> }

\* A job completed on the 30th poll, without a language code.
C2_Witness ==
    \E r \in Reqs :
        /\ req[r].pc = "done"
        /\ PollSaid(req[r].result, "completed")
        /\ StatusCalls(req[r]) = 30
        /\ <<"language_detected", <<"unknown">>>> \in req[r].resp.body

\* ---- C3
\* C3: no request makes a 31st status call; after 30 non-terminal polls the handler
\* has made exactly 30 status calls and fails with HTTP 500 and the one fixed message.
C3_TimeoutAfter30 ==
    \A r \in Reqs :
        LET q == req[r]
        IN  /\ StatusCalls(q) <= 30
            /\ (q.kind = "transcribe" /\ Count(q.log, "sleep") = 30) =>
                    /\ q.pc \in {"finally", "done"}
                    /\ StatusCalls(q) = 30
                    /\ q.resp = HttpError(500, <<"500", ": ", "Transcription timeout">>)

C3_Witness ==
    \E r \in Reqs :
        /\ req[r].pc = "done"
        /\ Count(req[r].log, "sleep") = 30
        /\ req[r].resp.status = 500

\* ---- C4
\* C4: when the status call reports `error` on poll k, the handler has made exactly
\* k status calls, answers HTTP 500 without a transcript, and the detail holds the
\* provider's error message of that poll.
C4_ErrorOnPollK ==
    \A r \in Reqs :
        LET q == req[r]
        IN  (q.kind = "transcribe" /\ q.pc = "done" /\ PollSaid(q.result, "error")) =>
                /\ StatusCalls(q) = Count(q.log, "sleep") + 1
                /\ StatusCalls(q) \in 1..30
                /\ q.resp.status = 500
                /\ q.resp.body = {}
                /\ HasKey(q.result.body, "error") =>
                        Contains(q.resp.detail, Get(q.result.body, "error"))

C4_Witness ==
    \E r \in Reqs :
        /\ req[r].pc = "done"
        /\ PollSaid(req[r].result, "error")
        /\ HasKey(req[r].result.body, "error")
        /\ StatusCalls(req[r]) = 30
        /\ req[r].resp.status = 500

\* ---- C5
InputFiles == {p \in DOMAIN fs : StartsWith(p, TEMP_DIR \o INPUT_PREFIX)}

\* C5: when a /transcribe handler has exited, its scratch file is not in the scratch
\* directory, whatever the outcome; an inbound scratch file exists only while the
\* request that created it is between the creation and the end of its handler.
C5_ScratchFileRemoved ==
    /\ \A r \in Reqs :
         (req[r].kind = "transcribe" /\ req[r].pc = "done") => ~Exists(fs, req[r].path)
    /\ \A p \in InputFiles :
         \E r \in Reqs :
            /\ req[r].kind = "transcribe"
            /\ req[r].path = p
            /\ req[r].pc \in {"read", "upload", "submit", "poll", "sleep", "finally"}
            /\ Contains(req[r].log, "create")

\* A handler that failed (timeout) has created and removed its file.
C5_Witness ==
    \E r \in Reqs :
        /\ req[r].pc = "done"
        /\ req[r].resp.status = 500
        /\ Contains(req[r].log, "write")
        /\ Contains(req[r].log, "remove")
        /\ StatusCalls(req[r]) = 30
        /\ ~Exists(fs, req[r].path)

\* ---- C6
\* C6: the effects of one /transcribe request occur in the order create, write,
\* upload, submit, status polls (with sleeps between them), remove; submit follows an
\* upload that gave an upload URL, a status call follows a submit that gave a job id,
\* upload and submit happen at most once and their failure ends the request with
\* HTTP 500 and no later external call; the removal is the last effect.
C6_StepOrder ==
    \A r \in Reqs :
        LET q == req[r]
            L == q.log
        IN  q.kind = "transcribe" =>
            /\ \A j \in 1..Len(L) :
                /\ L[j] = "create" => j = 1
                /\ L[j] = "write" => j = 2 /\ L[1] = "create"
                /\ L[j] = "upload" => j = 3 /\ L[2] = "write"
                /\ L[j] = "submit" => j = 4 /\ L[3] = "upload" /\ Answered(q.response, "upload_url")
                /\ L[j] = "status" =>
                        /\ j > 4
                        /\ L[j-1] \in {"submit", "sleep"}
                        /\ L[4] = "submit"
                        /\ Answered(q.transcribe_response, "id")
                /\ L[j] = "sleep" => j > 1 /\ L[j-1] = "status"
                /\ L[j] = "remove" => j = Len(L) /\ q.pc = "done"
            /\ (Contains(L, "upload") /\ ~Answered(q.response, "upload_url")) =>
                    /\ q.pc \in {"finally", "done"}
                    /\ q.resp.status = 500
                    /\ ~Contains(L, "submit") /\ ~Contains(L, "status")
            /\ (Contains(L, "submit") /\ ~Answered(q.transcribe_response, "id")) =>
                    /\ q.pc \in {"finally", "done"}
                    /\ q.resp.status = 500
                    /\ ~Contains(L, "status")
            /\ (q.pc = "done" /\ Contains(L, "create")) => L[Len(L)] = "remove"

C6_Witness ==
    \E r \in Reqs :
        /\ req[r].pc = "done"
        /\ req[r].log = <<"create", "write", "upload", "submit", "status", "sleep", "status", "remove">>

\* ---- C7
\* The locale of each table entry's voice identifier.
TableLocale ==
    ("en" :> "en-US") @@ ("es" :> "es-ES") @@ ("fr" :> "fr-FR") @@
    ("de" :> "de-DE") @@ ("fa" :> "fa-IR")

Synthesized(q) == q.kind = "tts" /\ Contains(q.log, "synthesize")

\* C7 (as claimed): for a language code of the table the synthesis request carries
\* the entry's voice and the locale of that entry (en -> en-US); for any other code
\* it carries fa-IR-FaridNeural and fa-IR.
C7_LocaleOfTableEntry ==
    \A r \in Reqs :
        LET q == req[r]
            language == q.language[1]
        IN  Synthesized(q) =>
                IF language \in DOMAIN TTS_VOICES
                THEN /\ <<"voice", TTS_VOICES[language]>> \in q.sent
                     /\ <<"xml:lang", TableLocale[language]>> \in q.sent
                ELSE /\ <<"voice", "fa-IR-FaridNeural">> \in q.sent
                     /\ <<"xml:lang", "fa-IR">> \in q.sent

\* C7 (amended): for a language code of the table the synthesis request carries the
\* entry's voice and, as xml:lang, the language code itself; for any other code it
\* carries fa-IR-FaridNeural and fa-IR; the lookup fails for no code, so the request
\* is sent for every code and a 200 answer gives a 200 response.
C7_VoiceLookup ==
    \A r \in Reqs :
        LET q == req[r]
            language == q.language[1]
        IN  (q.kind = "tts" /\ q.pc = "done") =>
                /\ Synthesized(q)
                /\ Cardinality(q.sent) = 3
                /\ IF language \in {"en", "es", "fr", "de", "fa"}
                   THEN /\ <<"voice", TTS_VOICES[language]>> \in q.sent
                        /\ <<"xml:lang", language>> \in q.sent
                   ELSE /\ <<"voice", "fa-IR-FaridNeural">> \in q.sent
                        /\ <<"xml:lang", "fa-IR">> \in q.sent
                /\ (q.response.transport /\ q.response.code = 200) => q.resp.status = 200

\* An unrecognized code served with the fallback voice.
C7_Witness ==
    \E r \in Reqs :
        /\ req[r].kind = "tts"
        /\ req[r].pc = "done"
        /\ req[r].language = <<"xx">>
        /\ <<"voice", "fa-IR-FaridNeural">> \in req[r].sent
        /\ req[r].resp.status = 200

\* ---- C8
\* C8 (as claimed): after the shutdown hook has run without a removal error, no
\* scratch file that /tts allocated is left in the scratch directory.
C8_SweepCoversTtsFiles ==
    (phase = "stopped" /\ sweepErrors = {}) => DOMAIN fs \cap TmpNames = {}

TokenClass(code) == IF code \in {401, 403, 404} THEN code ELSE 0

\* The detail the handler gives for a token answer.
TokenDetail(reply) == <<TOKEN_FAILED>> \o Str(token_outcome(reply).exc)

\* C10: every non-200 answer to the token request gives HTTP 500, with a detail that
\* differs from the detail of every answer of another of the four classes; a 200
\* answer without a token gives HTTP 500 too, never a success body.
C10_TokenFailures ==
    \A r \in Reqs :
        LET q == req[r]
        IN  (q.kind = "token" /\ q.pc = "done" /\ Contains(q.log, "token")
             /\ q.response.transport) =>
                /\ q.response.code # 200 =>
                        /\ q.resp.status = 500
                        /\ q.resp.body = {}
                        /\ \A other \in TokenReplies :
                             (other.transport /\ other.code # 200
                              /\ TokenClass(other.code) # TokenClass(q.response.code))
                                => q.resp.detail # TokenDetail(other)
                /\ ~Answered(q.response, "token") =>
                        q.resp.status = 500 /\ q.resp.body = {}

\* A 403 answer to the token request.
C10_Witness ==
    \E r \in Reqs :
        /\ req[r].kind = "token"
        /\ req[r].pc = "done"
        /\ Contains(req[r].log, "token")
        /\ req[r].response.transport
        /\ req[r].response.code = 403
        /\ req[r].resp.status = 500

\* ---- C11
\* The paths at which a step changes the scratch directory (created, rewritten, removed).
Touched ==
    { p \in DOMAIN fs \cup DOMAIN fs' :
        \/ Exists(fs, p) # Exists(fs', p)
        \/ Exists(fs, p) /\ Exists(fs', p) /\ fs[p] # fs'[p] }

\* Every path a step of a request touches is the path that request allocated.
OwnFileOnly ==
    \A p \in Touched :
        \/ phase' = "stopped"
        \/ \E r \in Reqs : req'[r] # req[r] /\ req'[r].path = p

\* No two requests, ended ones included, have allocated the same path.
DistinctPaths ==
    \A r1, r2 \in Reqs :
        (r1 # r2 /\ req[r1].path # NoneVal) => req[r1].path # req[r2].path

\* C11: however /transcribe and /tts requests interleave, no two requests ever use
\* the same scratch file name, and a request creates, writes and removes only the
\* file it allocated, so the cleanup of one /transcribe request never removes the
\* file of a request in flight.
C11_NoSharedScratchFile == [](DistinctPaths) /\ [][OwnFileOnly]_vars

\* One /transcribe request has removed its file while the file of another, suspended
\* /transcribe request is still in place.
C11_Witness ==
    \E r1, r2 \in Reqs :
        /\ r1 # r2
        /\ req[r1].kind = "transcribe" /\ req[r1].pc = "read" /\ Exists(fs, req[r1].path)
        /\ req[r2].kind = "transcribe" /\ req[r2].pc = "done"
        /\ Contains(req[r2].log, "remove")

\* ---- C12
\* A credential value that is present and not the empty string.
NonEmpty(v) == v # NoneVal /\ Len(v) > 0

AllCredentialsSet == \A c \in CredNames : NonEmpty(creds[c])

\* C12: the process serves only when all four credentials are non-empty: once the
\* startup hook has run, the process has failed to start exactly when one of them is
\* missing or empty, a failed process never runs a handler, and whenever a request
\* has entered a handler all four credentials are non-empty.
C12_ServesOnlyWithCredentials ==
    /\ phase # "boot" => (phase = "failed" <=> ~AllCredentialsSet)
    /\ phase \in {"boot", "failed"} =>
            running = 0 /\ \A r \in Reqs : req[r].pc = "idle"
    /\ (\E r \in Reqs : req[r].pc # "idle") => AllCredentialsSet

\* The startup hook has refused to start with an empty speech region as the only fault.
C12_Witness ==
    /\ phase = "failed"
    /\ creds["AZURE_REGION"] = <<>>
    /\ \A c \in CredNames \ {"AZURE_REGION"} : NonEmpty(creds[c])
    /\ \A r \in Reqs : req[r].pc = "idle"

\* ---- C13
\* The value of a form field of the request.
FormField(q, k) == (CHOOSE kv \in q.sent : kv[1] = k)[2]

\* The response of /translate as a function of the request alone, for a provider that
\* answers and is deterministic.
TranslateResult(q) ==
    HttpOk({ <<"translated_text",
               <<Translation(FormField(q, "q"), FormField(q, "source"), FormField(q, "target"))>>>> })

\* A step of a /translate request changes nothing but that request.
TranslateFrame ==
    \A r \in Reqs :
        (req'[r] # req[r] /\ (req[r].kind = "translate" \/ req'[r].kind = "translate")) =>
            /\ UNCHANGED <<phase, creds, fs, nextUuid, sweepErrors>>
            /\ \A o \in Reqs \ {r} : req'[o] = req[o]

\* A finished /translate request has made one call; its response is the translation
\* of its own fields when the provider answered with one, and HTTP 500 otherwise.
TranslateOnce ==
    \A r \in Reqs :
        LET q == req[r]
        IN  (q.kind = "translate" /\ q.pc = "done") =>
                /\ q.log = <<"translate">>
                /\ IF Answered(q.response, TRANSLATED)
                   THEN q.resp = TranslateResult(q)
                   ELSE q.resp.status = 500 /\ q.resp.body = {}

\* C13: a /translate request makes exactly one external call, changes no state of
\* the service, answers a deterministic provider's translation as a function of its
\* own text, source and target whatever ran before it, and answers HTTP 500 after
\* that one call when the provider fails or its body is malformed.
C13_TranslateIsPure == [](TranslateOnce) /\ [][TranslateFrame]_vars

\* A /translate request answered after another request has come and gone.
C13_Witness ==
    \E r1, r2 \in Reqs :
        /\ req[r1].pc = "closed"
        /\ req[r2].kind = "translate" /\ req[r2].pc = "done"
        /\ req[r2].resp = TranslateResult(req[r2])
        /\ FormField(req[r2], "source") # FormField(req[r2], "target")

\* ---- C14
\* The external calls a request has made to one endpoint.
Calls(q, e) == Count(q.log, e)

\* The handler's outcome is fixed: it is in the finally clause or has left it.
Decided(q) == q.pc \in {"finally", "done"}

\* At no time has a /transcribe request made more than one upload call, one submit
\* call and 30 status calls, and a finished one has exactly one response.
TranscribeCallBudget ==
    \A r \in Reqs :
        req[r].kind = "transcribe" =>
            /\ Calls(req[r], "upload") <= 1
            /\ Calls(req[r], "submit") <= 1
            /\ Calls(req[r], "status") <= POLL_ATTEMPTS
            /\ req[r].pc = "done" => req[r].resp.status \in {200, 400, 500}

\* Once the outcome is fixed the request makes no external call and the outcome
\* does not change until the response is sent.
NoCallAfterOutcome ==
    \A r \in Reqs :
        (req[r].kind = "transcribe" /\ Decided(req[r]) /\ req'[r].pc # "closed") =>
            /\ Decided(req'[r])
            /\ req'[r].resp = req[r].resp
            /\ \A e \in {"upload", "submit", "status"} : Calls(req'[r], e) = Calls(req[r], e)

\* C14: every started /transcribe request eventually finishes with one response,
\* whatever the provider reports, when every external call returns; it makes at most
\* 1 upload, 1 submit and 30 status calls, and none after its outcome is fixed.
C14_TranscribeTerminates ==
    /\ [](TranscribeCallBudget)
    /\ [][NoCallAfterOutcome]_vars
    /\ \A r \in Reqs :
        (req[r].kind = "transcribe") ~> (req[r].kind = "transcribe" /\ req[r].pc = "done")

\* A request that used the whole budget and was answered on the last status call,
\* after another request had been served while it waited for its upload.
C14_Witness ==
    \E r, o \in Reqs :
        /\ req[r].kind = "transcribe" /\ req[r].pc = "done" /\ req[r].resp.status = 200
        /\ Calls(req[r], "upload") = 1
        /\ Calls(req[r], "submit") = 1
        /\ Calls(req[r], "status") = POLL_ATTEMPTS
        /\ req[o].pc = "closed" /\ o > r

\* ---- C15
\* Every sleep in the log comes directly after a status call.
SleepsFollowPolls(q) ==
    \A n \in 1..Len(q.log) : q.log[n] = "sleep" => (n > 1 /\ q.log[n - 1] = "status")

\* Every sleep in the log has a status call after it.
SleepsAreRetried(q) ==
    \A n \in 1..Len(q.log) :
        q.log[n] = "sleep" => \E m \in (n + 1)..Len(q.log) : q.log[m] = "status"

\* C15 (as claimed): a /transcribe request sleeps 3 units after each status call
\* that saw a non-terminal status and at no other time, never more than 90 units in
\* all, and once its outcome is fixed every sleep it made has been followed by
\* another status call.
C15_SleepAndRetry ==
    \A r \in Reqs :
        LET q == req[r]
        IN  q.kind = "transcribe" =>
                /\ SleepsFollowPolls(q)
                /\ q.slept = POLL_INTERVAL * Calls(q, "sleep")
                /\ q.slept <= POLL_INTERVAL * POLL_ATTEMPTS
                /\ Decided(q) => SleepsAreRetried(q)

\* ---- C16
\* The scratch files of /tts in the directory.
OutputFiles == DOMAIN fs \cap TmpNames

\* A /tts request in progress or answered has created one file, before its call to
\* the provider, and the file is there: with the provider's bytes after a 200, and
\* as allocated after a failure, which is answered HTTP 500.
TtsFileKept ==
    \A r \in Reqs :
        LET q == req[r]
        IN  q.kind = "tts" =>
                /\ q.path \in OutputFiles
                /\ Calls(q, "create") = 1 /\ q.log[1] = "create"
                /\ q.pc = "done" =>
                    /\ Calls(q, "synthesize") = 1
                    /\ IF q.response.transport /\ q.response.code = 200
                       THEN /\ q.resp.status = 200 /\ q.resp.file = q.path
                            /\ fs[q.path] = q.response.text
                       ELSE q.resp.status = 500 /\ fs[q.path] = ""

\* Entering /tts adds one file under a name that was free, and no step of the
\* running service takes a /tts scratch file away.
TtsFilesOnlyGrow ==
    /\ \A r \in Reqs :
        (req[r].kind # "tts" /\ req'[r].kind = "tts") =>
            /\ req'[r].path \notin DOMAIN fs
            /\ DOMAIN fs' \cap TmpNames = OutputFiles \cup {req'[r].path}
    /\ phase = "serving" =>
        /\ OutputFiles \subseteq DOMAIN fs'
        /\ Cardinality(DOMAIN fs' \cap TmpNames) >= Cardinality(OutputFiles)

\* C16: each /tts request allocates exactly one scratch file under a fresh name
\* before it contacts the provider and deletes it on no exit path: after a 200 it
\* holds the provider's bytes, after a failure (HTTP 500) it is still there, and the
\* number of /tts scratch files never decreases while the service runs.
C16_TtsFileNeverDeleted == [](TtsFileKept) /\ [][TtsFilesOnlyGrow]_vars

\* A failed /tts request has been answered and its file remains, and a second one
\* has just written the provider's audio to its own file.
C16_Witness ==
    \E r, o \in Reqs :
        /\ req[o].pc = "closed" /\ req[o].path \in OutputFiles /\ fs[req[o].path] = ""
        /\ req[r].kind = "tts" /\ req[r].pc = "done" /\ req[r].resp.status = 200
        /\ fs[req[r].path] = "mp3-bytes"
        /\ Cardinality(OutputFiles) = 2

\* ---- C17
\* The status call was answered with a status that is neither completed nor error.
NonTerminal(reply) ==
    Answered(reply, "status") /\ Get(reply.body, "status") \notin {"completed", "error"}

\* The request has just made a status call.
Polled(r) == req[r].pc = "poll" /\ req'[r].kind = "transcribe" /\ req'[r].pc # "poll"

\* A status call is followed by a sleep (and so by another attempt) exactly when it
\* was answered with a non-terminal status; one that failed fixes the outcome at 500.
RetryOnlyWhenNonTerminal ==
    \A r \in Reqs :
        Polled(r) =>
            /\ req'[r].pc = "sleep" <=> NonTerminal(req'[r].result)
            /\ ~Answered(req'[r].result, "status") =>
                    req'[r].pc = "finally" /\ req'[r].resp.status = 500

\* A request whose last status call failed made no call and no sleep after it: k
\* status calls, k - 1 sleeps, HTTP 500 without a transcript.
FailedPollEnds ==
    \A r \in Reqs :
        LET q == req[r]
            k == Calls(q, "status")
        IN  (q.kind = "transcribe" /\ k >= 1 /\ ~Answered(q.result, "status")) =>
                /\ Decided(q)
                /\ k \in 1..POLL_ATTEMPTS
                /\ Calls(q, "sleep") = k - 1
                /\ q.i = k - 1
                /\ q.resp.status = 500 /\ q.resp.body = {}
                /\ \A n \in 1..Len(q.log) : q.log[n] = "status" =>
                        \A m \in (n + 1)..Len(q.log) : q.log[m] \in {"status", "sleep", "remove"}

\* C17: in the poll loop only a status call answered with a non-terminal status is
\* followed by another attempt; a status call that fails on poll k (HTTP error
\* status, transport error, body without a status) ends the request with HTTP 500
\* after exactly k status calls, with no sleep after it and the other 30 - k
\* attempts unused.
C17_FailedPollIsFinal == [](FailedPollEnds) /\ [][RetryOnlyWhenNonTerminal]_vars

\* The third status call was answered 200 with a body that has no status.
C17_Witness ==
    \E r \in Reqs :
        /\ req[r].kind = "transcribe" /\ req[r].pc = "done"
        /\ req[r].result.transport /\ req[r].result.code = 200
        /\ req[r].result.body.json /\ ~HasKey(req[r].result.body, "status")
        /\ Calls(req[r], "status") = 3 /\ Calls(req[r], "sleep") = 2
        /\ req[r].resp.status = 500

====
